---- MODULE Spec2Model ----
(***************************************************************************)
(* Network file sharing server and client (server.cpp, client.cpp).        *)
(*                                                                         *)
(* A std::string and a buffer are sequences of bytes 0..255; a TCP         *)
(* direction is the sequence of bytes written and not yet read.  The       *)
(* server is the accept loop of main() around handle_client(); the peer    *)
(* is the menu loop of the client's main(), with the text of the command   *)
(* frame left free so that every frame a peer can put on the wire is       *)
(* covered.                                                                *)
(***************************************************************************)
EXTENDS Integers, Sequences, FiniteSets, TLC

(***************************************************************************)
(* Bounds of the model.                                                    *)
(***************************************************************************)
\* Longest file content (bytes) of the local file, a shared file, an upload.
MaxLen == 3
\* Command frames the peers send after their AUTH frames, in all.
MaxCmds == 2
\* Connections the accept loop serves.
MaxConns == 2
\* Changes other processes make to files while the server runs.
MaxExt == 1
\* buf.size() of the bulk transfer, 64 * 1024 in the source, scaled down so
\* that lengths below, at and above a multiple of it are within MaxLen.
ChunkSize == 2

(***************************************************************************)
(* Characters and protocol strings.                                        *)
(***************************************************************************)
XOR_KEY == 90
Colon == 58
Slash == 47
Backslash == 92
Dot == 46
Newline == 10
Space == 32

sAUTH == <<65, 85, 84, 72>>
sLIST == <<76, 73, 83, 84>>
sGET == <<71, 69, 84>>
sPUT == <<80, 85, 84>>
sQUIT == <<81, 85, 73, 84>>
sOK == <<79, 75>>
sBYE == <<66, 89, 69>>
sAUTH_OK == <<65, 85, 84, 72, 95, 79, 75>>
sAUTH_FAIL == <<65, 85, 84, 72, 95, 70, 65, 73, 76>>
sERR_BadName == <<69, 82, 82, 32, 66, 97, 100, 78, 97, 109, 101>>
sERR_NotFound == <<69, 82, 82, 32, 78, 111, 116, 70, 111, 117, 110, 100>>
sERR_UnknownCmd == <<69, 82, 82, 32, 85, 110, 107, 110, 111, 119, 110, 67, 109, 100>>
sERR_CannotOpen == <<69, 82, 82, 58, 32, 99, 97, 110, 110, 111, 116, 32, 111, 112,
                     101, 110, 32, 115, 101, 114, 118, 101, 114, 95, 102, 105, 108,
                     101, 115, 10>>
sUploads == <<117, 112, 108, 111, 97, 100, 115>>
sDot == <<Dot>>
sDotDot == <<Dot, Dot>>

(***************************************************************************)
(* Sequence helpers.                                                       *)
(***************************************************************************)
Rev(s) == [i \in 1..Len(s) |-> s[Len(s) + 1 - i]]


Drop(s, n) == SubSeq(s, n + 1, Len(s))

Take(s, n) == SubSeq(s, 1, n)

Min(a, b) == IF a <= b THEN a ELSE b

(***************************************************************************)
(* xor_in_place: buf[i] ^= XOR_KEY for i < n.                              *)
(***************************************************************************)
RECURSIVE XorBits(_, _, _)
XorBits(a, b, n) ==
    IF n = 0 THEN 0
    ELSE (((a % 2) + (b % 2)) % 2) + (2 * XorBits(a \div 2, b \div 2, n - 1))

\* Fault: the last byte of the n is left as it is.
xor_in_place_OffByOne(buf, n) ==
    [i \in 1..Len(buf) |-> IF i < n THEN XorBits(buf[i], XOR_KEY, 8) ELSE buf[i]]

xor_in_place(buf, n) ==
    [i \in 1..Len(buf) |-> IF i <= n THEN XorBits(buf[i], XOR_KEY, 8) ELSE buf[i]]

\* The client's copy (client.cpp).
c_xor_in_place(buf, n) ==
    [i \in 1..Len(buf) |-> IF i <= n THEN XorBits(buf[i], XOR_KEY, 8) ELSE buf[i]]

(***************************************************************************)
(* Byte order.  A uint32_t value is its 4 bytes, a uint64_t value its 8    *)
(* bytes, most significant first; be says the host is big-endian.          *)
(***************************************************************************)
\* (uint32_t)n for a small n.
U32(n) == <<0, 0, (n \div 256) % 256, n % 256>>

\* (uint64_t)n for a small n.
U64(n) == <<0, 0, 0, 0, 0, 0, (n \div 256) % 256, n % 256>>

\* The bytes of a value in memory, lowest address first, and back.
Mem(be, v) == IF be THEN v ELSE Rev(v)

htonl(be, w) == IF be THEN w ELSE Rev(w)

ntohl(be, w) == htonl(be, w)

host_to_be64(be, host) ==
    LET hi == htonl(be, SubSeq(host, 1, 4))
        lo == htonl(be, SubSeq(host, 5, 8))
    IN  lo \o hi

be64_to_host(be, v) ==
    LET lo == ntohl(be, SubSeq(v, 1, 4))
        hi == ntohl(be, SubSeq(v, 5, 8))
    IN  hi \o lo

\* The client's copies (client.cpp).
c_host_to_be64(be, host) ==
    LET hi == htonl(be, SubSeq(host, 1, 4))
        lo == htonl(be, SubSeq(host, 5, 8))
    IN  lo \o hi

c_be64_to_host(be, v) ==
    LET lo == ntohl(be, SubSeq(v, 1, 4))
        hi == ntohl(be, SubSeq(v, 5, 8))
    IN  hi \o lo

\* Whether a uint64_t is below 2^16, and its value then (the model's
\* transfers never move 2^16 bytes).
U64Small(v) == \A i \in 1..6 : v[i] = 0

U64Nat(v) == (v[7] * 256) + v[8]

\* v - k for 0 < k <= 255 and v >= k, with borrow.
RECURSIVE U64SubAt(_, _, _)
U64SubAt(v, i, k) ==
    IF v[i] >= k THEN [v EXCEPT ![i] = v[i] - k]
    ELSE U64SubAt([v EXCEPT ![i] = v[i] + 256 - k], i - 1, 1)

\* Fault: left is not decremented.
U64Sub_Keep(v, k) == v

U64Sub(v, k) == IF k = 0 THEN v ELSE U64SubAt(v, 8, k)

\* std::min<uint64_t>(buf.size(), left) as a number.
ChunkOf(left) ==
    IF U64Small(left) /\ U64Nat(left) <= ChunkSize THEN U64Nat(left) ELSE ChunkSize

(***************************************************************************)
(* send_line: the bytes it puts on the wire.                               *)
(***************************************************************************)
send_line(be, s) == Mem(be, htonl(be, U32(Len(s)))) \o s

\* The client's copy (client.cpp).
c_send_line(be, s) == Mem(be, htonl(be, U32(Len(s)))) \o s

(***************************************************************************)
(* recv_line on the bytes in flight.  The header's value is compared with  *)
(* what is available without being turned into a number above 2^16.        *)
(***************************************************************************)
LineHdr(be, wire) == ntohl(be, Mem(be, SubSeq(wire, 1, 4)))

LineLen(be, wire) ==
    LET n == LineHdr(be, wire)
    IN  IF n[1] = 0 /\ n[2] = 0 THEN (n[3] * 256) + n[4] ELSE 65536

\* recv_line can return: the header and the declared bytes are there.
LineReady(be, wire) ==
    /\ Len(wire) >= 4
    /\ LineLen(be, wire) <= Len(wire) - 4

LineBody(be, wire) == SubSeq(wire, 5, 4 + LineLen(be, wire))

LineRest(be, wire) == Drop(wire, 4 + LineLen(be, wire))

(***************************************************************************)
(* operator>> of std::istringstream into a std::string: skip white space,  *)
(* take the characters up to the next white space; an empty string when    *)
(* the input is exhausted.                                                 *)
(***************************************************************************)
IsSpace(c) == c \in {32, 9, 10, 11, 12, 13}

RECURSIVE SkipWs(_, _)
SkipWs(s, i) == IF i <= Len(s) /\ IsSpace(s[i]) THEN SkipWs(s, i + 1) ELSE i

RECURSIVE WordEnd(_, _)
WordEnd(s, i) == IF i <= Len(s) /\ ~IsSpace(s[i]) THEN WordEnd(s, i + 1) ELSE i

\* The position after the k-th extraction started at position 1.
RECURSIVE PosAfter(_, _)
PosAfter(s, k) == IF k = 0 THEN 1 ELSE WordEnd(s, SkipWs(s, PosAfter(s, k - 1)))

\* The string the k-th extraction yields.
Word(s, k) ==
    LET b == SkipWs(s, PosAfter(s, k - 1))
    IN  SubSeq(s, b, WordEnd(s, b) - 1)

(***************************************************************************)
(* safe_filename                                                           *)
(***************************************************************************)
\* std::string::find of a character: its first position, 0 for npos.
RECURSIVE FindChar(_, _, _)
FindChar(s, c, i) ==
    IF i > Len(s) THEN 0 ELSE IF s[i] = c THEN i ELSE FindChar(s, c, i + 1)

\* std::string::find of "..".
RECURSIVE FindDotDot(_, _)
FindDotDot(s, i) ==
    IF i + 1 > Len(s) THEN 0
    ELSE IF s[i] = Dot /\ s[i + 1] = Dot THEN i ELSE FindDotDot(s, i + 1)

\* Fault: the test for a backslash is left out.
safe_filename_NoBackslash(name) ==
    /\ name # <<>>
    /\ FindDotDot(name, 1) = 0
    /\ FindChar(name, Slash, 1) = 0

safe_filename(name) ==
    /\ name # <<>>
    /\ FindDotDot(name, 1) = 0
    /\ FindChar(name, Slash, 1) = 0
    /\ FindChar(name, Backslash, 1) = 0

(***************************************************************************)
(* check_auth.  The users file is [readable, lines]: whether the ifstream  *)
(* opens, and the lines std::getline yields.                               *)
(***************************************************************************)
RECURSIVE ScanUsers(_, _, _, _)
ScanUsers(lines, i, user, pass) ==
    IF i > Len(lines) THEN FALSE
    ELSE LET line == lines[i]
             pos == FindChar(line, Colon, 1)
         IN  IF pos = 0 THEN ScanUsers(lines, i + 1, user, pass)
             ELSE IF /\ SubSeq(line, 1, pos - 1) = user
                     /\ SubSeq(line, pos + 1, Len(line)) = pass
                  THEN TRUE
                  ELSE ScanUsers(lines, i + 1, user, pass)

\* Fault: the password of the line is not compared.
check_auth_UserOnly(users, user, pass) ==
    /\ users.readable
    /\ \E i \in 1..Len(users.lines) :
         LET pos == FindChar(users.lines[i], Colon, 1)
         IN  pos # 0 /\ SubSeq(users.lines[i], 1, pos - 1) = user

check_auth(users, user, pass) ==
    IF ~users.readable THEN FALSE ELSE ScanUsers(users.lines, 1, user, pass)

(***************************************************************************)
(* list_files.  dir is [open, entries]: whether opendir succeeds, and the  *)
(* names readdir yields, in its order.                                     *)
(***************************************************************************)
RECURSIVE ListEntries(_, _)
ListEntries(entries, i) ==
    IF i > Len(entries) THEN <<>>
    ELSE LET n == entries[i]
         IN  IF n = sDot \/ n = sDotDot \/ n = sUploads
             THEN ListEntries(entries, i + 1)
             ELSE n \o <<Newline>> \o ListEntries(entries, i + 1)

\* Fault: the entry "uploads" is not skipped.
list_files_WithUploads(dir) ==
    IF ~dir.open THEN sERR_CannotOpen
    ELSE ListEntries(dir.entries, 1) \o sUploads \o <<Newline>>

list_files(dir) ==
    IF ~dir.open THEN sERR_CannotOpen ELSE ListEntries(dir.entries, 1)

(***************************************************************************)
(* Files.  A file is [exists, data].                                       *)
(***************************************************************************)
File(data) == [exists |-> TRUE, data |-> data]

NoFile == [exists |-> FALSE, data |-> <<>>]

\* File contents the model draws from: one of every length up to MaxLen,
\* its bytes differing by position (the first is XOR_KEY, which encodes
\* to 0).
Pattern(n) == [i \in 1..n |-> XOR_KEY + i - 1]

Contents == {Pattern(n) : n \in 0..MaxLen}

\* What another writer turns a file's content into: one byte less, or one
\* byte more.
Resized(d) ==
    {d \o <<7>>} \cup (IF d = <<>> THEN {} ELSE {Take(d, Len(d) - 1)})

\* Names of the shared root (server_files/) and of the uploads root.
nA == <<97>>
nB == <<98>>
nU == <<117>>

SharedNames == {nA, nB}

UploadNames == {nU}

(***************************************************************************)
(* Frames a peer sends.                                                    *)
(***************************************************************************)
uA == <<97>>
pP == <<112>>
pQ == <<113>>
sp == <<Space>>

AuthFrames ==
    { sAUTH \o sp \o uA \o sp \o pP,              \* AUTH a p
      sAUTH \o sp \o uA \o sp \o pQ,              \* AUTH a q
      sAUTH \o sp \o nB \o sp \o pP,              \* AUTH b p
      sAUTH \o sp \o uA,                          \* AUTH a
      sAUTH,                                      \* AUTH
      <<>>,                                       \* the empty frame
      sLIST,                                      \* LIST
      <<97, 117, 116, 104>> \o sp \o uA \o sp \o pP,   \* auth a p
      sAUTH \o sp \o uA \o sp \o pP \o sp \o pQ,  \* AUTH a p q
      sAUTH \o sp \o sp \o uA \o <<9>> \o pP,     \* AUTH  a<TAB>p
      sp \o sAUTH \o sp \o uA \o sp \o pP,        \* <SP>AUTH a p
      sAUTH \o sp \o uA \o <<Colon>> \o sp \o pP, \* AUTH a: p
      sAUTH \o sp \o uA \o sp \o <<Colon>> \o pP  \* AUTH a :p
    }

GoodAuth == sAUTH \o sp \o uA \o sp \o pP

CmdFrames ==
    { sLIST,
      sGET \o sp \o nA,                           \* GET a
      sGET \o sp \o nB,                           \* GET b
      sGET \o sp \o nU,                           \* GET u
      sGET \o sp \o nA \o <<Backslash>> \o nB,    \* GET a\b
      sGET,                                       \* GET
      sPUT \o sp \o nU,                           \* PUT u
      sPUT \o sp \o sDotDot,                      \* PUT ..
      sPUT \o sp \o nU \o <<Slash>>,              \* PUT u/
      sQUIT,
      <<>>,                                       \* the empty frame
      GoodAuth,                                   \* AUTH a p
      <<103, 101, 116>> \o sp \o nA               \* get a
    }

\* The sessions of Spec start from one users file and from an AUTH frame it
\* accepts and one it rejects; SpecAuth goes through all of them.
SessionUsers == {[readable |-> TRUE, lines |-> <<uA \o <<Colon>> \o pP>>]}

SessionAuthFrames == {GoodAuth, sAUTH \o sp \o uA \o sp \o pQ}

\* States of users.txt at the time of a check.
UsersFiles ==
    { [readable |-> FALSE, lines |-> <<>>],
      [readable |-> TRUE, lines |-> <<>>],
      [readable |-> TRUE, lines |-> <<uA \o <<Colon>> \o pP>>],               \* a:p
      [readable |-> TRUE, lines |-> <<uA \o <<Colon>> \o pQ>>],               \* a:q
      [readable |-> TRUE, lines |-> <<nB \o <<Colon>> \o pQ,
                                      uA \o <<Colon>> \o pQ,
                                      uA \o pP,
                                      uA \o <<Colon>> \o pP>>],               \* b:q a:q ap a:p
      [readable |-> TRUE, lines |-> <<uA \o <<Colon, Colon>> \o pP>>],        \* a::p
      [readable |-> TRUE, lines |-> <<uA \o <<Colon>> \o pP \o <<13>>>>]      \* a:p<CR>
    }

(***************************************************************************)
(* State.                                                                  *)
(***************************************************************************)
VARIABLES
    srvBE,      \* the server's host is big-endian
    cliBE,      \* the peer's host is big-endian
    pc,         \* where the server is: accept, auth, loop, get_open,
                \* get_chunk, put_hdr, put_chunk
    conn,       \* connections accepted so far; the current one is conn
    sess,       \* per connection: none, authenticating, authenticated, closed
    link,       \* the current connection: none, up, down (the peer closed)
    c2s,        \* bytes the peer wrote and the server has not read
    s2c,        \* bytes the server wrote and the peer has not read
    shared,     \* files of server_files/, by name
    uploads,    \* files of server_files/uploads/, by name
    xf,         \* the server's running bulk transfer
    cpc,        \* where the peer is: off, start, authwait, menu, wait,
                \* list2, get_hdr, get_chunk, put_open, put_chunk, done
    cf,         \* the command frame the peer sent last
    ncmd,       \* command frames the peer sent on this connection
    local,      \* the peer's local file named in its PUT
    dl,         \* the peer's local file written by its GET
    cxf,        \* the peer's running bulk transfer
    ext,        \* changes made to files by other processes so far
    resp,       \* bytes the server handed to send since it read the last frame
    sendFail,   \* a send since the last frame read returned failure
    fsops,      \* file system calls of the server since it read the last frame
    last,       \* the frame the server handled last, and what it consulted
    authOK      \* the connections on which AUTH_OK was sent

vars == <<srvBE, cliBE, pc, conn, sess, link, c2s, s2c, shared, uploads, xf,
          cpc, cf, ncmd, local, dl, cxf, ext, resp, sendFail, fsops, last, authOK>>

srvVars == <<pc, sess, xf, resp, sendFail, fsops, last>>

cliVars == <<cpc, cf, ncmd, local, dl, cxf>>

hostVars == <<srvBE, cliBE, conn, authOK>>

\* Fault: a name the root does not hold is looked up in the uploads root.
FileAt_UploadsToo(root, name) ==
    IF name \in DOMAIN root THEN root[name]
    ELSE IF name \in UploadNames THEN uploads[name]
    ELSE NoFile

FileAt(root, name) == IF name \in DOMAIN root THEN root[name] ELSE NoFile

\* The safe names that are directories of the shared root: "." and the
\* uploads directory ensure_dirs makes (server_files/uploads).
IsDir(name) == name \in {sDot, sUploads}

\* std::ifstream(path).good() for a path of the shared root.  A file opens
\* when it is there.  Whether a directory opens is the platform's choice:
\* it does where fopen(path, "r") does.
OpensForRead(root, name) ==
    IF IsDir(name) THEN BOOLEAN ELSE {FileAt(root, name).exists}

\* (uint64_t)in.tellg() after seekg(0, end) on a directory: what lseek
\* answers, 2^63 - 1 or -1.
DirSizes ==
    { <<127, 255, 255, 255, 255, 255, 255, 255>>,
      <<255, 255, 255, 255, 255, 255, 255, 255>> }

\* The sizes send_file_encrypted can measure.
Measured(root, name) ==
    IF IsDir(name) THEN DirSizes ELSE {U64(Len(FileAt(root, name).data))}

Idle == [name |-> <<>>, size |-> U64(0), pos |-> 0, buf |-> <<>>, ret |-> "none"]

CIdle == [size |-> U64(0), pos |-> 0, read |-> <<>>, ret |-> "none"]

NoUsers == [readable |-> FALSE, lines |-> <<>>]

\* op: auth, LIST, GET, PUT, QUIT, unknown or recvfail; users: the users
\* file check_auth read; opened: whether LIST's opendir succeeded; unread:
\* the bytes left unread when the connection was closed.
NoLast == [op |-> "none", conn |-> 0, frame |-> <<>>, users |-> NoUsers,
           opened |-> FALSE, unread |-> <<>>]

Handled(op, line) == [NoLast EXCEPT !.op = op, !.conn = conn, !.frame = line]

Init ==
    /\ srvBE = FALSE
    /\ cliBE = FALSE
    /\ pc = "accept"
    /\ conn = 0
    /\ sess = [c \in 1..MaxConns |-> "none"]
    /\ link = "none"
    /\ c2s = <<>>
    /\ s2c = <<>>
    /\ shared = [n \in SharedNames |->
                    IF n = nA THEN File(Pattern(MaxLen)) ELSE File(<<>>)]
    /\ uploads = [n \in UploadNames |-> NoFile]
    /\ xf = Idle
    /\ cpc = "off"
    /\ cf = <<>>
    /\ ncmd = 0
    /\ local = NoFile
    /\ dl = NoFile
    /\ cxf = CIdle
    /\ ext = 0
    /\ resp = <<>>
    /\ sendFail = FALSE
    /\ fsops = {}
    /\ last = NoLast
    /\ authOK = {}

(***************************************************************************)
(* The server's socket calls.                                              *)
(***************************************************************************)
\* What send_all can return: success while the peer is there; either once
\* the peer has closed.
SendOutcomes == IF link = "up" THEN {TRUE} ELSE BOOLEAN

\* The peer's unread bytes after the server wrote bytes b.
Delivered(b) == IF link = "up" THEN s2c \o b ELSE s2c

\* recv_all of n bytes fails: the peer closed and fewer than n bytes remain.
RecvFails(n) == link = "down" /\ Len(c2s) < n

\* recv_line fails: the peer closed before the whole frame was written.
RecvLineFails == link = "down" /\ ~LineReady(srvBE, c2s)

\* close(cfd) and the return to accept(): the connection's buffers and the
\* peer are gone.
Close ==
    /\ pc' = "accept"
    /\ sess' = [sess EXCEPT ![conn] = "closed"]
    /\ link' = "none"
    /\ c2s' = <<>>
    /\ s2c' = <<>>
    /\ cpc' = "off"
    /\ cf' = <<>>
    /\ ncmd' = ncmd
    /\ local' = NoFile
    /\ dl' = NoFile
    /\ cxf' = CIdle

\* Fault: a failed transfer goes on to the next recv_line.
BreakLoop_Continue ==
    /\ pc' = "loop"
    /\ UNCHANGED <<sess, link, c2s, s2c, cliVars>>

\* Lines 223 and 230: the transfer returned false; break, then close(cfd).
BreakLoop == Close

(***************************************************************************)
(* main(): accept, then handle_client.  A peer has connected.              *)
(***************************************************************************)
\* Fault: the next accept does not wait for handle_client to return.
Accept_Concurrent ==
    /\ conn < MaxConns
    /\ conn' = conn + 1
    /\ pc' = "auth"
    /\ sess' = [sess EXCEPT ![conn + 1] = "authenticating"]
    /\ link' = "up"
    /\ cpc' = "start"
    /\ xf' = Idle
    /\ resp' = <<>>
    /\ sendFail' = FALSE
    /\ fsops' = {}
    /\ last' = NoLast
    /\ UNCHANGED <<srvBE, cliBE, authOK, c2s, s2c, shared, uploads, cf, ncmd, local,
                   dl, cxf, ext>>

Accept ==
    /\ pc = "accept"
    /\ conn < MaxConns
    /\ conn' = conn + 1
    /\ pc' = "auth"
    /\ sess' = [sess EXCEPT ![conn + 1] = "authenticating"]
    /\ link' = "up"
    /\ cpc' = "start"
    /\ xf' = Idle
    /\ resp' = <<>>
    /\ sendFail' = FALSE
    /\ fsops' = {}
    /\ last' = NoLast
    /\ UNCHANGED <<srvBE, cliBE, authOK, c2s, s2c, shared, uploads, cf, ncmd, local,
                   dl, cxf, ext>>

(***************************************************************************)
(* handle_client, 1) AUTH.                                                 *)
(***************************************************************************)
\* Fault: the return after AUTH_FAIL is missing.
AuthNext_NoReturn(good) == "loop"

\* Lines 194-199: where handle_client goes after the check.
AuthNext(good) == IF good THEN "loop" ELSE "return"

AuthFrame(users) ==
    /\ pc = "auth"
    /\ LineReady(srvBE, c2s)
    /\ LET line == LineBody(srvBE, c2s)
           cmd == Word(line, 1)
           user == Word(line, 2)
           pass == Word(line, 3)
           asked == cmd = sAUTH /\ user # <<>> /\ pass # <<>>
           good == asked /\ check_auth(users, user, pass)
           answer == send_line(srvBE, IF good THEN sAUTH_OK ELSE sAUTH_FAIL)
       IN  /\ last' = [Handled("auth", line) EXCEPT
                          !.users = IF asked THEN users ELSE NoUsers,
                          !.unread = LineRest(srvBE, c2s)]
           /\ fsops' = IF asked THEN {<<"open", "users", <<>>>>} ELSE {}
           /\ resp' = answer
           /\ \E ok \in SendOutcomes : sendFail' = ~ok
           /\ xf' = Idle
           /\ authOK' = IF good THEN authOK \cup {conn} ELSE authOK
           /\ IF AuthNext(good) = "loop"
              THEN /\ pc' = "loop"
                   /\ sess' = [sess EXCEPT ![conn] = "authenticated"]
                   /\ c2s' = LineRest(srvBE, c2s)
                   /\ s2c' = Delivered(answer)
                   /\ UNCHANGED <<link, cpc, cf, ncmd, local, dl, cxf>>
              ELSE Close
    /\ UNCHANGED <<srvBE, cliBE, conn, shared, uploads, ext>>

\* recv_line failed at line 188: close and return, nothing is sent.
AuthRecvFail ==
    /\ pc = "auth"
    /\ RecvLineFails
    /\ last' = [Handled("recvfail", <<>>) EXCEPT !.unread = c2s]
    /\ fsops' = {}
    /\ resp' = <<>>
    /\ sendFail' = FALSE
    /\ xf' = Idle
    /\ Close
    /\ UNCHANGED <<hostVars, shared, uploads, ext>>

(***************************************************************************)
(* handle_client, the command loop: one action per branch of the loop      *)
(* body, each from the recv_line at line 206 to the next blocking call.    *)
(***************************************************************************)
CmdReady == pc = "loop" /\ LineReady(srvBE, c2s)

CmdLine == LineBody(srvBE, c2s)

\* Fault: every frame that is not LIST, GET or PUT ends the session.
Branch_ElseQuit(cmd) ==
    IF cmd = sLIST THEN "LIST"
    ELSE IF cmd = sGET THEN "GET"
    ELSE IF cmd = sPUT THEN "PUT"
    ELSE "QUIT"

\* Lines 211-238: the branch of the if / else-if chain that cmd takes.
Branch(cmd) ==
    IF cmd = sLIST THEN "LIST"
    ELSE IF cmd = sGET THEN "GET"
    ELSE IF cmd = sPUT THEN "PUT"
    ELSE IF cmd = sQUIT THEN "QUIT"
    ELSE "unknown"

\* The orders in which readdir can yield the entries of server_files/.
RECURSIVE Perms(_)
Perms(S) ==
    IF S = {} THEN {<<>>}
    ELSE UNION {{<<x>> \o q : q \in Perms(S \ {x})} : x \in S}

\* The orders readdir may return the entries in: the files in any order, and
\* ".", ".." and "uploads" before, between or after them.
DirOrders ==
    LET files == Perms({n \in SharedNames : shared[n].exists})
        other == <<sDot, sUploads, sDotDot>>
    IN  UNION {{Take(p, k) \o other \o Drop(p, k) : k \in 0..Len(p)} : p \in files}

\* The branch sent bytes b, made the file system calls ops, and goes on to
\* the next recv_line.
Continue(op, b, ops, ok) ==
    /\ last' = Handled(op, CmdLine)
    /\ fsops' = ops
    /\ resp' = b
    /\ sendFail' = ~ok
    /\ s2c' = Delivered(b)
    /\ c2s' = LineRest(srvBE, c2s)
    /\ xf' = Idle
    /\ UNCHANGED <<pc, sess, link, cliVars>>

HandleList ==
    /\ CmdReady
    /\ Branch(Word(CmdLine, 1)) = "LIST"
    /\ \E open \in BOOLEAN, ok \in SendOutcomes :
         \E entries \in (IF open THEN DirOrders ELSE {<<>>}) :
           LET dir == [open |-> open, entries |-> entries]
               b == send_line(srvBE, sOK) \o send_line(srvBE, list_files(dir))
           IN  /\ last' = [Handled("LIST", CmdLine) EXCEPT !.opened = open]
               /\ fsops' = {<<"opendir", "shared", <<>>>>}
               /\ resp' = b
               /\ sendFail' = ~ok
               /\ s2c' = Delivered(b)
    /\ c2s' = LineRest(srvBE, c2s)
    /\ xf' = Idle
    /\ UNCHANGED <<hostVars, pc, sess, link, cliVars, shared, uploads, ext>>

\* GET with a name safe_filename rejects, or of a file that cannot be opened.
HandleGetRefused ==
    /\ CmdReady
    /\ Branch(Word(CmdLine, 1)) = "GET"
    /\ LET fname == Word(CmdLine, 2)
       IN  \E ok \in SendOutcomes :
             IF ~safe_filename(fname)
             THEN Continue("GET", send_line(srvBE, sERR_BadName), {}, ok)
             ELSE /\ FALSE \in OpensForRead(shared, fname)
                  /\ Continue("GET", send_line(srvBE, sERR_NotFound),
                              {<<"open", "shared", fname>>}, ok)
    /\ UNCHANGED <<hostVars, shared, uploads, ext>>

\* GET of a file that opens: OK is sent and send_file_encrypted is entered.
HandleGet ==
    /\ CmdReady
    /\ Branch(Word(CmdLine, 1)) = "GET"
    /\ LET fname == Word(CmdLine, 2)
           b == send_line(srvBE, sOK)
       IN  /\ safe_filename(fname)
           /\ TRUE \in OpensForRead(shared, fname)
           /\ \E ok \in SendOutcomes : sendFail' = ~ok
           /\ last' = Handled("GET", CmdLine)
           /\ fsops' = {<<"open", "shared", fname>>}
           /\ resp' = b
           /\ s2c' = Delivered(b)
           /\ xf' = [Idle EXCEPT !.name = fname, !.ret = "run"]
    /\ pc' = "get_open"
    /\ c2s' = LineRest(srvBE, c2s)
    /\ UNCHANGED <<hostVars, sess, link, cliVars, shared, uploads, ext>>

HandlePutRefused ==
    /\ CmdReady
    /\ Branch(Word(CmdLine, 1)) = "PUT"
    /\ ~safe_filename(Word(CmdLine, 2))
    /\ \E ok \in SendOutcomes :
         Continue("PUT", send_line(srvBE, sERR_BadName), {}, ok)
    /\ UNCHANGED <<hostVars, shared, uploads, ext>>

\* PUT with a safe name: OK is sent and recv_file_encrypted is entered.
HandlePut ==
    /\ CmdReady
    /\ Branch(Word(CmdLine, 1)) = "PUT"
    /\ LET fname == Word(CmdLine, 2)
           b == send_line(srvBE, sOK)
       IN  /\ safe_filename(fname)
           /\ \E ok \in SendOutcomes : sendFail' = ~ok
           /\ last' = Handled("PUT", CmdLine)
           /\ fsops' = {}
           /\ resp' = b
           /\ s2c' = Delivered(b)
           /\ xf' = [Idle EXCEPT !.name = fname, !.ret = "run"]
    /\ pc' = "put_hdr"
    /\ c2s' = LineRest(srvBE, c2s)
    /\ UNCHANGED <<hostVars, sess, link, cliVars, shared, uploads, ext>>

\* Fault: the break after BYE is missing.
HandleQuit_NoBreak ==
    /\ CmdReady
    /\ Branch(Word(CmdLine, 1)) = "QUIT"
    /\ \E ok \in SendOutcomes : Continue("QUIT", send_line(srvBE, sBYE), {}, ok)
    /\ UNCHANGED <<hostVars, shared, uploads, ext>>

HandleQuit ==
    /\ CmdReady
    /\ Branch(Word(CmdLine, 1)) = "QUIT"
    /\ \E ok \in SendOutcomes : sendFail' = ~ok
    /\ last' = [Handled("QUIT", CmdLine) EXCEPT !.unread = LineRest(srvBE, c2s)]
    /\ fsops' = {}
    /\ resp' = send_line(srvBE, sBYE)
    /\ xf' = Idle
    /\ Close
    /\ UNCHANGED <<hostVars, shared, uploads, ext>>

\* Fault: an AUTH frame in the loop runs the credential check again.
HandleUnknown_ReAuth ==
    /\ CmdReady
    /\ Branch(Word(CmdLine, 1)) = "unknown"
    /\ \E ok \in SendOutcomes, u \in SessionUsers :
         IF Word(CmdLine, 1) = sAUTH
         THEN Continue("unknown",
                       send_line(srvBE, IF check_auth(u, Word(CmdLine, 2), Word(CmdLine, 3))
                                        THEN sAUTH_OK ELSE sAUTH_FAIL),
                       {<<"open", "users", <<>>>>}, ok)
         ELSE Continue("unknown", send_line(srvBE, sERR_UnknownCmd), {}, ok)
    /\ UNCHANGED <<hostVars, shared, uploads, ext>>

HandleUnknown ==
    /\ CmdReady
    /\ Branch(Word(CmdLine, 1)) = "unknown"
    /\ \E ok \in SendOutcomes :
         Continue("unknown", send_line(srvBE, sERR_UnknownCmd), {}, ok)
    /\ UNCHANGED <<hostVars, shared, uploads, ext>>

\* recv_line failed at line 206: break, close.
LoopRecvFail ==
    /\ pc = "loop"
    /\ RecvLineFails
    /\ last' = [Handled("recvfail", <<>>) EXCEPT !.unread = c2s]
    /\ fsops' = {}
    /\ resp' = <<>>
    /\ sendFail' = FALSE
    /\ xf' = Idle
    /\ Close
    /\ UNCHANGED <<hostVars, shared, uploads, ext>>

(***************************************************************************)
(* The server's send_file_encrypted, called by GET.                        *)
(***************************************************************************)
\* Lines 138-147: open, measure, send the header.
GetOpen ==
    /\ pc = "get_open"
    /\ LET opens == IsDir(xf.name) \/ FileAt(shared, xf.name).exists
       IN  /\ fsops' = fsops \cup {<<"open", "shared", xf.name>>}
           /\ \E ok \in SendOutcomes, size \in Measured(shared, xf.name) :
                LET hdr == Mem(srvBE, host_to_be64(srvBE, size))
                IN  IF opens /\ ok
                    THEN /\ xf' = [xf EXCEPT !.size = size, !.pos = 0]
                         /\ resp' = resp \o hdr
                         /\ s2c' = Delivered(hdr)
                         /\ pc' = "get_chunk"
                         /\ UNCHANGED <<sendFail, sess, link, c2s, cliVars>>
                    ELSE /\ xf' = [xf EXCEPT !.ret = "fail"]
                         /\ sendFail' = (sendFail \/ opens)
                         /\ resp' = resp
                         /\ BreakLoop
    /\ UNCHANGED <<hostVars, shared, uploads, ext, last>>

\* Lines 150-156: one turn of the loop.  read() hitting the end of the file
\* sets eofbit and failbit, so the turn that reads fewer than buf.size()
\* bytes is the last one.  read() on a directory fails with nothing read.
GetChunk ==
    /\ pc = "get_chunk"
    /\ LET data == FileAt(shared, xf.name).data
           got == IF xf.pos >= Len(data) THEN 0 ELSE Min(ChunkSize, Len(data) - xf.pos)
           buf == xor_in_place(SubSeq(data, xf.pos + 1, xf.pos + got), got)
       IN  IF got <= 0
           THEN /\ xf' = [xf EXCEPT !.ret = "ok"]
                /\ pc' = "loop"
                /\ UNCHANGED <<resp, sendFail, s2c, sess, link, c2s, cliVars>>
           ELSE \E ok \in SendOutcomes :
                  IF ok
                  THEN /\ xf' = [xf EXCEPT !.pos = xf.pos + got,
                                           !.ret = IF got < ChunkSize THEN "ok" ELSE "run"]
                       /\ resp' = resp \o buf
                       /\ s2c' = Delivered(buf)
                       /\ pc' = IF got < ChunkSize THEN "loop" ELSE "get_chunk"
                       /\ UNCHANGED <<sendFail, sess, link, c2s, cliVars>>
                  ELSE /\ xf' = [xf EXCEPT !.ret = "fail"]
                       /\ sendFail' = TRUE
                       /\ resp' = resp
                       /\ BreakLoop
    /\ UNCHANGED <<hostVars, shared, uploads, ext, fsops, last>>

(***************************************************************************)
(* The server's recv_file_encrypted, called by PUT.                        *)
(***************************************************************************)
\* Lines 161-169: the 8-byte header, then the destination is opened with
\* trunc.  The open can fail.
PutHeader ==
    /\ pc = "put_hdr"
    /\ Len(c2s) >= 8
    /\ LET size == be64_to_host(srvBE, Mem(srvBE, SubSeq(c2s, 1, 8)))
       IN  \E opens \in BOOLEAN :
             /\ fsops' = fsops \cup {<<"create", "uploads", xf.name>>}
             /\ IF opens
                THEN /\ uploads' = [uploads EXCEPT ![xf.name] = File(<<>>)]
                     /\ xf' = [xf EXCEPT !.size = size,
                                         !.ret = IF size = U64(0) THEN "ok" ELSE "run"]
                     /\ pc' = IF size = U64(0) THEN "loop" ELSE "put_chunk"
                     /\ c2s' = Drop(c2s, 8)
                     /\ UNCHANGED <<sess, link, s2c, cliVars>>
                ELSE /\ xf' = [xf EXCEPT !.ret = "fail"]
                     /\ uploads' = uploads
                     /\ BreakLoop
    /\ UNCHANGED <<hostVars, shared, ext, resp, sendFail, last>>

\* Fault: the destination is opened before the header is read.
PutHeaderFail_OpensFirst ==
    /\ pc = "put_hdr"
    /\ RecvFails(8)
    /\ xf' = [xf EXCEPT !.ret = "fail"]
    /\ uploads' = [uploads EXCEPT ![xf.name] = File(<<>>)]
    /\ BreakLoop
    /\ UNCHANGED <<hostVars, shared, ext, resp, sendFail, fsops, last>>

\* recv_all of the header failed: nothing is opened.
PutHeaderFail ==
    /\ pc = "put_hdr"
    /\ RecvFails(8)
    /\ xf' = [xf EXCEPT !.ret = "fail"]
    /\ BreakLoop
    /\ UNCHANGED <<hostVars, shared, uploads, ext, resp, sendFail, fsops, last>>

\* Lines 170-176: one recv of recv_all's loop brings r of the bytes the
\* chunk still needs; the chunk, once whole, is decoded and written.
PutRecv ==
    /\ pc = "put_chunk"
    /\ c2s # <<>>
    /\ LET chunk == ChunkOf(xf.size)
       IN  \E r \in 1..Min(chunk - Len(xf.buf), Len(c2s)) :
             LET buf == xf.buf \o Take(c2s, r)
                 left == U64Sub(xf.size, chunk)
             IN  /\ c2s' = Drop(c2s, r)
                 /\ IF Len(buf) < chunk
                    THEN /\ xf' = [xf EXCEPT !.buf = buf]
                         /\ UNCHANGED <<uploads, pc>>
                    ELSE /\ uploads' = [uploads EXCEPT ![xf.name] =
                                          File(@.data \o xor_in_place(buf, chunk))]
                         /\ xf' = [xf EXCEPT !.buf = <<>>, !.size = left,
                                             !.pos = xf.pos + chunk,
                                             !.ret = IF left = U64(0) THEN "ok" ELSE "run"]
                         /\ pc' = IF left = U64(0) THEN "loop" ELSE "put_chunk"
    /\ UNCHANGED <<hostVars, sess, link, s2c, cliVars, shared, ext, resp, sendFail,
                   fsops, last>>

\* recv returned 0 inside a chunk: the peer closed.
PutRecvFail ==
    /\ pc = "put_chunk"
    /\ RecvFails(1)
    /\ xf' = [xf EXCEPT !.ret = "fail"]
    /\ BreakLoop
    /\ UNCHANGED <<hostVars, shared, uploads, ext, resp, sendFail, fsops, last>>

(***************************************************************************)
(* The peer: the client's main() from the AUTH frame on.  The text of the  *)
(* frames is free; what the peer does after a command frame follows the    *)
(* menu branch of the frame's keyword.                                     *)
(***************************************************************************)
\* Lines 159-161: the AUTH frame.
ClientAuth(f) ==
    /\ cpc = "start"
    /\ link = "up"
    /\ c2s' = c2s \o c_send_line(cliBE, f)
    /\ cpc' = "authwait"
    /\ UNCHANGED <<hostVars, srvVars, link, s2c, shared, uploads, cf, ncmd, local,
                   dl, cxf, ext>>

\* Lines 163-168: the answer to AUTH; anything but AUTH_OK ends the client.
ClientAuthResp ==
    /\ cpc = "authwait"
    /\ link = "up"
    /\ LineReady(cliBE, s2c)
    /\ s2c' = LineRest(cliBE, s2c)
    /\ IF LineBody(cliBE, s2c) = sAUTH_OK
       THEN cpc' = "menu" /\ link' = link
       ELSE cpc' = "done" /\ link' = "down"
    /\ UNCHANGED <<hostVars, srvVars, c2s, shared, uploads, cf, ncmd, local, dl,
                   cxf, ext>>

\* A menu choice: the command frame is sent (lines 181, 194, 219, 230).
\* The records of the exchange before it are dropped when the server is
\* through with that exchange.
ClientCmd(f) ==
    /\ cpc = "menu"
    /\ link = "up"
    /\ ncmd < MaxCmds
    /\ c2s' = c2s \o c_send_line(cliBE, f)
    /\ cf' = f
    /\ ncmd' = ncmd + 1
    /\ cpc' = "wait"
    /\ IF pc = "loop"
       THEN /\ xf' = Idle
            /\ resp' = <<>>
            /\ sendFail' = FALSE
            /\ fsops' = {}
            /\ last' = NoLast
            /\ local' = NoFile
            /\ dl' = NoFile
            /\ cxf' = CIdle
       ELSE UNCHANGED <<xf, resp, sendFail, fsops, last, local, dl, cxf>>
    /\ UNCHANGED <<hostVars, pc, sess, link, s2c, shared, uploads, ext>>

\* The first answer frame (lines 182-183, 195-199, 220-221, 231).
ClientResp ==
    /\ cpc = "wait"
    /\ link = "up"
    /\ LineReady(cliBE, s2c)
    /\ s2c' = LineRest(cliBE, s2c)
    /\ LET isOK == LineBody(cliBE, s2c) = sOK
           key == Word(cf, 1)
       IN  /\ cpc' = CASE key = sQUIT -> "done"
                       [] key = sLIST /\ isOK -> "list2"
                       [] key = sGET /\ isOK -> "get_hdr"
                       [] key = sPUT /\ isOK -> "put_open"
                       [] OTHER -> "menu"
           /\ link' = IF key = sQUIT THEN "down" ELSE link
    /\ UNCHANGED <<hostVars, srvVars, c2s, shared, uploads, cf, ncmd, local, dl,
                   cxf, ext>>

\* Line 184: the data frame of LIST.
ClientList2 ==
    /\ cpc = "list2"
    /\ link = "up"
    /\ LineReady(cliBE, s2c)
    /\ s2c' = LineRest(cliBE, s2c)
    /\ cpc' = "menu"
    /\ UNCHANGED <<hostVars, srvVars, link, c2s, shared, uploads, cf, ncmd, local,
                   dl, cxf, ext>>

\* The client's recv_file_encrypted, lines 76-85.
ClientGetHeader ==
    /\ cpc = "get_hdr"
    /\ link = "up"
    /\ Len(s2c) >= 8
    /\ LET size == c_be64_to_host(cliBE, Mem(cliBE, SubSeq(s2c, 1, 8)))
       IN  /\ cxf' = [CIdle EXCEPT !.size = size,
                                   !.ret = IF size = U64(0) THEN "ok" ELSE "run"]
           /\ cpc' = IF size = U64(0) THEN "menu" ELSE "get_chunk"
    /\ s2c' = Drop(s2c, 8)
    /\ dl' = File(<<>>)
    /\ UNCHANGED <<hostVars, srvVars, link, c2s, shared, uploads, cf, ncmd, local, ext>>

\* The client's recv_file_encrypted, lines 87-95: one chunk.
ClientGetRecv ==
    /\ cpc = "get_chunk"
    /\ link = "up"
    /\ LET chunk == ChunkOf(cxf.size)
           left == U64Sub(cxf.size, chunk)
       IN  /\ Len(s2c) >= chunk
           /\ s2c' = Drop(s2c, chunk)
           /\ dl' = File(dl.data \o c_xor_in_place(Take(s2c, chunk), chunk))
           /\ cxf' = [cxf EXCEPT !.size = left, !.pos = cxf.pos + chunk,
                                 !.ret = IF left = U64(0) THEN "ok" ELSE "run"]
           /\ cpc' = IF left = U64(0) THEN "menu" ELSE "get_chunk"
    /\ UNCHANGED <<hostVars, srvVars, link, c2s, shared, uploads, cf, ncmd, local, ext>>

\* The files the path typed for an upload can name.
LocalFiles == {NoFile} \cup {File(d) : d \in Contents}

\* The client's send_file_encrypted, lines 101-109: open, measure, send the
\* header.  When the file does not open the client leaves its loop and
\* closes.
ClientPutOpen ==
    /\ cpc = "put_open"
    /\ link = "up"
    /\ \E f \in LocalFiles :
         /\ local' = f
         /\ IF f.exists
            THEN /\ c2s' = c2s \o Mem(cliBE, c_host_to_be64(cliBE, U64(Len(f.data))))
                 /\ cxf' = [CIdle EXCEPT !.size = U64(Len(f.data)), !.ret = "run"]
                 /\ cpc' = "put_chunk"
                 /\ link' = link
            ELSE /\ cxf' = [CIdle EXCEPT !.ret = "fail"]
                 /\ cpc' = "done"
                 /\ link' = "down"
                 /\ c2s' = c2s
    /\ UNCHANGED <<hostVars, srvVars, s2c, shared, uploads, cf, ncmd, dl, ext>>

\* The client's send_file_encrypted, lines 114-122: one turn of the loop.
ClientPutChunk ==
    /\ cpc = "put_chunk"
    /\ link = "up"
    /\ LET data == local.data
           got == IF cxf.pos >= Len(data) THEN 0 ELSE Min(ChunkSize, Len(data) - cxf.pos)
           raw == SubSeq(data, cxf.pos + 1, cxf.pos + got)
       IN  /\ c2s' = c2s \o c_xor_in_place(raw, got)
           /\ cxf' = [cxf EXCEPT !.pos = cxf.pos + got, !.read = cxf.read \o raw,
                                 !.ret = IF got < ChunkSize THEN "ok" ELSE "run"]
           /\ cpc' = IF got < ChunkSize THEN "menu" ELSE "put_chunk"
    /\ UNCHANGED <<hostVars, srvVars, link, s2c, shared, uploads, cf, ncmd, local,
                   dl, ext>>

\* The peer closes its socket or dies: what it had not read is dropped, what
\* it had written stays readable.
ClientClose ==
    /\ link = "up"
    /\ link' = "down"
    /\ cpc' = "done"
    /\ s2c' = <<>>
    /\ cf' = <<>>
    /\ local' = NoFile
    /\ dl' = NoFile
    /\ cxf' = CIdle
    /\ UNCHANGED <<hostVars, srvVars, c2s, shared, uploads, ncmd, ext>>

(***************************************************************************)
(* Other processes: a writer of the file being sent.                       *)
(***************************************************************************)
\* The shared file a GET is about to open, or is sending, is rewritten.
ExtWriteShared(d) ==
    /\ pc \in {"get_open", "get_chunk"}
    /\ ext < MaxExt
    /\ d \in Resized(shared[xf.name].data)
    /\ shared' = [shared EXCEPT ![xf.name] = File(d)]
    /\ ext' = ext + 1
    /\ UNCHANGED <<hostVars, srvVars, link, c2s, s2c, uploads, cliVars>>

\* The shared file is removed between the GET's test and its open.
ExtRemoveShared ==
    /\ pc = "get_open"
    /\ ext < MaxExt
    /\ shared' = [shared EXCEPT ![xf.name] = NoFile]
    /\ ext' = ext + 1
    /\ UNCHANGED <<hostVars, srvVars, link, c2s, s2c, uploads, cliVars>>

\* The local file an upload is sending is rewritten.
ExtWriteLocal(d) ==
    /\ cpc = "put_chunk"
    /\ ext < MaxExt
    /\ d \in Resized(local.data)
    /\ local' = File(d)
    /\ ext' = ext + 1
    /\ UNCHANGED <<hostVars, srvVars, link, c2s, s2c, shared, uploads, cpc, cf,
                   ncmd, dl, cxf>>

Next ==
    \/ Accept
    \/ \E u \in SessionUsers : AuthFrame(u)
    \/ AuthRecvFail
    \/ HandleList
    \/ HandleGetRefused
    \/ HandleGet
    \/ HandlePutRefused
    \/ HandlePut
    \/ HandleQuit
    \/ HandleUnknown
    \/ LoopRecvFail
    \/ GetOpen
    \/ GetChunk
    \/ PutHeader
    \/ PutHeaderFail
    \/ PutRecv
    \/ PutRecvFail
    \/ \E f \in SessionAuthFrames : ClientAuth(f)
    \/ ClientAuthResp
    \/ \E f \in CmdFrames : ClientCmd(f)
    \/ ClientResp
    \/ ClientList2
    \/ ClientGetHeader
    \/ ClientGetRecv
    \/ ClientPutOpen
    \/ ClientPutChunk
    \/ ClientClose
    \/ \E d \in Resized(shared[nA].data) : ExtWriteShared(d)
    \/ ExtRemoveShared
    \/ \E d \in Resized(local.data) : ExtWriteLocal(d)

Spec == Init /\ [][Next]_vars

\* The first frame of a connection, for every frame and users file of the
\* model.
NextAuth ==
    \/ Accept
    \/ \E u \in UsersFiles : AuthFrame(u)
    \/ AuthRecvFail
    \/ \E f \in AuthFrames : ClientAuth(f)
    \/ ClientAuthResp
    \/ ClientClose

SpecAuth == Init /\ [][NextAuth]_vars

(***************************************************************************)
(* Any peer.  The server's recv sees what a peer wrote, whether or not the *)
(* peer waited for an answer first: this peer writes its AUTH frame and,   *)
(* without waiting, what it means to send after it, reads nothing, and     *)
(* closes when it likes.                                                   *)
(***************************************************************************)
RawFrame(f) == c_send_line(cliBE, f)

RawBulk(d, n) ==
    Mem(cliBE, c_host_to_be64(cliBE, U64(Len(d)))) \o Take(c_xor_in_place(d, Len(d)), n)

\* What the peer writes after its AUTH frame.
RawScripts ==
    { RawFrame(<<>>) \o RawFrame(sLIST),
      RawFrame(sQUIT) \o RawFrame(sLIST),
      RawFrame(sGET \o sp \o nA) \o RawFrame(sQUIT),
      RawFrame(sGET \o sp \o nU) \o RawFrame(sPUT \o sp \o sDotDot),
      RawFrame(sPUT \o sp \o nU),
      RawFrame(sPUT \o sp \o nU) \o RawBulk(Pattern(MaxLen), 1),
      RawFrame(sPUT \o sp \o nU) \o RawBulk(Pattern(2 * ChunkSize), ChunkSize + 1),
      RawFrame(sPUT \o sp \o nU) \o RawBulk(Pattern(MaxLen), MaxLen) \o RawFrame(sLIST) }

RawSend(b) ==
    /\ cpc = "start"
    /\ link = "up"
    /\ b \in RawScripts
    /\ c2s' = c2s \o RawFrame(GoodAuth) \o b
    /\ cpc' = "authwait"
    /\ UNCHANGED <<hostVars, srvVars, link, s2c, shared, uploads, cf, ncmd, local, dl,
                   cxf, ext>>

NextRaw ==
    \/ Accept
    \/ \E u \in SessionUsers : AuthFrame(u)
    \/ AuthRecvFail
    \/ HandleList
    \/ HandleGetRefused
    \/ HandleGet
    \/ HandlePutRefused
    \/ HandlePut
    \/ HandleQuit
    \/ HandleUnknown
    \/ LoopRecvFail
    \/ GetOpen
    \/ GetChunk
    \/ PutHeader
    \/ PutHeaderFail
    \/ PutRecv
    \/ PutRecvFail
    \/ \E b \in RawScripts : RawSend(b)
    \/ ClientClose

SpecRaw == Init /\ [][NextRaw]_vars

(***************************************************************************)
(* The byte order helpers by themselves: a sender on a host of either      *)
(* byte order puts the header of a length on the wire (server.cpp:146-147, *)
(* client.cpp:108-109), a receiver on a host of either byte order reads it *)
(* (server.cpp:161-163, client.cpp:76-78).  xf.size is the sender's        *)
(* length, s2c the eight bytes on the wire, cxf.size what the receiver     *)
(* makes of them.                                                          *)
(***************************************************************************)
Sizes64 ==
    {U64(n) : n \in 0..MaxLen}
    \cup { <<1, 2, 3, 4, 5, 6, 7, 8>>,
           <<0, 0, 0, 1, 0, 0, 0, 0>>,
           <<0, 0, 0, 0, 255, 255, 255, 255>>,
           <<128, 0, 0, 0, 0, 0, 0, 1>>,
           <<255, 255, 255, 255, 255, 255, 255, 255>>,
           <<0, 0, 1, 0, 0, 1, 0, 0>> }

InitOrder ==
    /\ srvBE \in BOOLEAN
    /\ cliBE \in BOOLEAN
    /\ pc = "size"
    /\ xf \in {[Idle EXCEPT !.size = x] : x \in Sizes64}
    /\ conn = 0
    /\ sess = [c \in 1..MaxConns |-> "none"]
    /\ link = "none"
    /\ c2s = <<>>
    /\ s2c = <<>>
    /\ shared = [n \in SharedNames |-> NoFile]
    /\ uploads = [n \in UploadNames |-> NoFile]
    /\ cpc = "off"
    /\ cf = <<>>
    /\ ncmd = 0
    /\ local = NoFile
    /\ dl = NoFile
    /\ cxf = CIdle
    /\ ext = 0
    /\ resp = <<>>
    /\ sendFail = FALSE
    /\ fsops = {}
    /\ last = NoLast
    /\ authOK = {}

\* size_be = host_to_be64(size); send_all(fd, &size_be, 8).
SendSize ==
    /\ pc = "size"
    /\ s2c' = Mem(srvBE, host_to_be64(srvBE, xf.size))
    /\ pc' = "sent"
    /\ UNCHANGED <<hostVars, sess, xf, resp, sendFail, fsops, last, link, c2s, shared,
                   uploads, cliVars, ext>>

\* recv_all(fd, &size_be, 8); size = be64_to_host(size_be).
RecvSize ==
    /\ pc = "sent"
    /\ cxf' = [cxf EXCEPT !.size = c_be64_to_host(cliBE, Mem(cliBE, s2c)), !.ret = "run"]
    /\ pc' = "read"
    /\ UNCHANGED <<hostVars, sess, xf, resp, sendFail, fsops, last, link, c2s, s2c,
                   shared, uploads, cpc, cf, ncmd, local, dl, ext>>

NextOrder == SendSize \/ RecvSize

SpecOrder == InitOrder /\ [][NextOrder]_vars

(***************************************************************************)
(* send_line and recv_line on strings of any size_t length.  A string is   *)
(* std::string(size, fill): size is a 64-bit size_t, most significant byte *)
(* first, and every byte is fill.  The bytes in flight are the four header *)
(* bytes and the number of payload bytes behind them.  cf is the string    *)
(* given to send_line, c2s what is in flight, last.frame the string        *)
(* recv_line returns and last.unread what it leaves in flight.             *)
(***************************************************************************)
Str(size, fill) == [size |-> size, fill |-> fill]

\* (uint32_t)s.size(): the low 32 bits.
Cast32(size) == SubSeq(size, 5, 8)

\* A uint32_t used as a size_t.
Widen(w) == <<0, 0, 0, 0>> \o w

\* a - b on 64-bit values with a >= b.
RECURSIVE U64Minus(_, _, _, _)
U64Minus(a, b, i, borrow) ==
    IF i = 0 THEN a
    ELSE LET d == a[i] - b[i] - borrow
         IN  IF d >= 0 THEN U64Minus([a EXCEPT ![i] = d], b, i - 1, 0)
             ELSE U64Minus([a EXCEPT ![i] = d + 256], b, i - 1, 1)

\* a <= b on 64-bit values.
RECURSIVE U64Le(_, _, _)
U64Le(a, b, i) ==
    IF i > 8 THEN TRUE
    ELSE IF a[i] # b[i] THEN a[i] < b[i]
    ELSE U64Le(a, b, i + 1)

SizesT ==
    {U64(n) : n \in 0..MaxLen}
    \cup { <<0, 0, 0, 0, 0, 1, 0, 0>>,
           <<0, 0, 0, 0, 255, 255, 255, 255>>,
           <<0, 0, 0, 1, 0, 0, 0, 0>>,
           <<0, 0, 0, 1, 0, 0, 0, 1>> }

Fills == {0, Space, 97}

InitFrame ==
    /\ srvBE \in BOOLEAN
    /\ cliBE \in BOOLEAN
    /\ pc = "line"
    /\ cf \in {Str(n, b) : n \in SizesT, b \in Fills}
    /\ c2s = <<>>
    /\ conn = 0
    /\ sess = [c \in 1..MaxConns |-> "none"]
    /\ link = "none"
    /\ s2c = <<>>
    /\ shared = [n \in SharedNames |-> NoFile]
    /\ uploads = [n \in UploadNames |-> NoFile]
    /\ xf = Idle
    /\ cpc = "off"
    /\ ncmd = 0
    /\ local = NoFile
    /\ dl = NoFile
    /\ cxf = CIdle
    /\ ext = 0
    /\ resp = <<>>
    /\ sendFail = FALSE
    /\ fsops = {}
    /\ last = NoLast
    /\ authOK = {}

\* send_line(fd, s): n = htonl((uint32_t)s.size()); the four bytes of n,
\* then s.size() bytes of s.
SendLine ==
    /\ pc = "line"
    /\ c2s' = [hdr |-> Mem(cliBE, htonl(cliBE, Cast32(cf.size))),
               count |-> cf.size, fill |-> cf.fill]
    /\ pc' = "sent"
    /\ UNCHANGED <<hostVars, sess, xf, resp, sendFail, fsops, last, link, s2c, shared,
                   uploads, cpc, cf, ncmd, local, dl, cxf, ext>>

\* recv_line(fd, out): four bytes into n, n = ntohl(n), out.assign(n, 0),
\* then exactly n bytes into out.
RecvLine ==
    LET n == ntohl(srvBE, Mem(srvBE, c2s.hdr))
    IN  /\ pc = "sent"
        /\ U64Le(Widen(n), c2s.count, 1)
        /\ last' = [NoLast EXCEPT !.op = "line",
                                  !.frame = Str(Widen(n), c2s.fill),
                                  !.unread = U64Minus(c2s.count, Widen(n), 8, 0)]
        /\ pc' = "read"
        /\ UNCHANGED <<hostVars, sess, xf, resp, sendFail, fsops, link, c2s, s2c, shared,
                       uploads, cliVars, ext>>

NextFrame == SendLine \/ RecvLine

SpecFrame == InitFrame /\ [][NextFrame]_vars

(***************************************************************************)
(* The client's menu against the server with nothing else writing files:   *)
(* the frames are those the menu builds (client.cpp:181, 193-194,          *)
(* 218-219, 230) for names typed at its prompts.                           *)
(***************************************************************************)
MenuFrames ==
    { sLIST,
      sGET \o sp \o nA,
      sGET \o sp \o nB,
      sGET \o sp \o nU,
      sGET \o sp \o sUploads,
      sGET \o sp \o nA \o <<Backslash>> \o nB,
      sPUT \o sp \o nU,
      sPUT \o sp \o sDotDot,
      sQUIT }

\* Every frame of the menu starts with LIST, GET, PUT or QUIT, so the
\* server's last branch (server.cpp:236-238) has no frame to take here.
NextMenu ==
    \/ Accept
    \/ \E u \in SessionUsers : AuthFrame(u)
    \/ AuthRecvFail
    \/ HandleList
    \/ HandleGetRefused
    \/ HandleGet
    \/ HandlePutRefused
    \/ HandlePut
    \/ HandleQuit
    \/ LoopRecvFail
    \/ GetOpen
    \/ GetChunk
    \/ PutHeader
    \/ PutHeaderFail
    \/ PutRecv
    \/ PutRecvFail
    \/ \E f \in SessionAuthFrames : ClientAuth(f)
    \/ ClientAuthResp
    \/ \E f \in MenuFrames : ClientCmd(f)
    \/ ClientResp
    \/ ClientList2
    \/ ClientGetHeader
    \/ ClientGetRecv
    \/ ClientPutOpen
    \/ ClientPutChunk
    \/ ClientClose

SpecMenu == Init /\ [][NextMenu]_vars

(***************************************************************************)
(* The properties.  They are stated over what an observer of the wire and  *)
(* of the file system sees, in terms of their own: a frame is four bytes   *)
(* of length, most significant first, and the text; a word is a maximal    *)
(* run of characters that are not white space.                             *)
(***************************************************************************)
Frame(b) == <<0, 0, Len(b) \div 256, Len(b) % 256>> \o b

Blank(c) == c \in {9, 10, 11, 12, 13, 32}

Runs(s) ==
    {r \in (1..Len(s)) \X (1..Len(s)) :
        /\ r[1] <= r[2]
        /\ \A i \in r[1]..r[2] : ~Blank(s[i])
        /\ (r[1] = 1 \/ Blank(s[r[1] - 1]))
        /\ (r[2] = Len(s) \/ Blank(s[r[2] + 1]))}

\* The k-th word of s, empty when s has fewer words.
NthRun(s, k) ==
    LET pick == {r \in Runs(s) : Cardinality({q \in Runs(s) : q[1] < r[1]}) = k - 1}
    IN  IF pick = {} THEN <<>>
        ELSE LET r == CHOOSE x \in pick : TRUE IN SubSeq(s, r[1], r[2])

\* line is u, a colon, p, and u holds no colon.
SplitsTo(line, u, p) ==
    \E k \in 1..Len(line) :
        /\ line[k] = 58
        /\ \A j \in 1..(k - 1) : line[j] # 58
        /\ SubSeq(line, 1, k - 1) = u
        /\ SubSeq(line, k + 1, Len(line)) = p

StoreHolds(users, u, p) ==
    users.readable /\ \E i \in 1..Len(users.lines) : SplitsTo(users.lines[i], u, p)

\* The first three words are AUTH, a user and a pass the store holds.
Credentialed(f, users) ==
    /\ NthRun(f, 1) = sAUTH
    /\ NthRun(f, 2) # <<>>
    /\ NthRun(f, 3) # <<>>
    /\ StoreHolds(users, NthRun(f, 2), NthRun(f, 3))

\* The name is empty or holds "..", "/" or "\".
IllFormed(n) ==
    \/ n = <<>>
    \/ \E i \in 1..Len(n) : n[i] \in {47, 92}
    \/ \E i \in 1..(Len(n) - 1) : n[i] = 46 /\ n[i + 1] = 46

\* This step is the server taking a frame off the stream in its command
\* loop; last' records the frame.
Handles == pc = "loop" /\ last'.op \notin {"none", "recvfail"} /\ Len(c2s') < Len(c2s)

\* C1, as amended: the first frame of a connection is answered AUTH_OK
\* exactly when its first three white-space separated words are AUTH, a
\* user and a pass (further words are ignored) and the users file opens and
\* has a line that is user, a colon, pass, split at its first colon; in
\* every other case the answer is AUTH_FAIL.
C1_AuthDecision ==
    last.op = "auth" =>
        resp = Frame(IF Credentialed(last.frame, last.users)
                     THEN sAUTH_OK ELSE sAUTH_FAIL)

\* C1, as stated: AUTH_OK exactly when the frame is AUTH, a user and a
\* pass, these three words and no more.
C1_AuthExactForm ==
    last.op = "auth" =>
        resp = Frame(IF /\ Cardinality(Runs(last.frame)) = 3
                        /\ Credentialed(last.frame, last.users)
                     THEN sAUTH_OK ELSE sAUTH_FAIL)

\* AUTH_OK was the answer to a frame of more than three words.
C1_Witness ==
    /\ last.op = "auth"
    /\ resp = Frame(sAUTH_OK)
    /\ Cardinality(Runs(last.frame)) > 3

\* C2: one authentication attempt per connection.  After AUTH_FAIL the
\* connection is closed, the server is back at accept, and no file but the
\* users file was touched for it; the command loop and the transfers only
\* ever run on a connection on which AUTH_OK was sent, and the server never
\* works on a closed connection.
C2_OneAttempt ==
    /\ (last.op = "auth" /\ resp = Frame(sAUTH_FAIL)) =>
          /\ sess[last.conn] = "closed"
          /\ pc = "accept"
          /\ last.conn \notin authOK
          /\ fsops \subseteq {<<"open", "users", <<>>>>}
    /\ last.op \in {"LIST", "GET", "PUT", "QUIT", "unknown"} => last.conn \in authOK
    /\ pc \notin {"accept", "auth"} => conn \in authOK
    /\ pc # "accept" => sess[conn] \in {"authenticating", "authenticated"}
    /\ \A c \in 1..MaxConns : sess[c] = "authenticated" => c \in authOK

\* AUTH_FAIL was sent on the first connection and a later one is served.
C2_Witness ==
    /\ conn > 1
    /\ 1 \notin authOK
    /\ sess[1] = "closed"
    /\ last.op = "LIST"

\* C3: a GET or PUT whose file name is empty or holds "..", "/" or "\" is
\* answered with the one frame ERR BadName; the step makes no file system
\* call, changes no file, starts no transfer, and the server goes on to the
\* next frame of the authenticated session.
C3_BadName ==
    [][(/\ Handles
        /\ NthRun(last'.frame, 1) \in {sGET, sPUT}
        /\ IllFormed(NthRun(last'.frame, 2)))
       => /\ resp' = Frame(sERR_BadName)
          /\ s2c' = Delivered(Frame(sERR_BadName))
          /\ fsops' = {}
          /\ shared' = shared /\ uploads' = uploads
          /\ xf' = Idle
          /\ pc' = "loop"
          /\ sess' = sess /\ sess[conn] = "authenticated"
          /\ link' = link]_vars

\* A name with a backslash was refused and the session goes on.
C3_Witness ==
    /\ last.op = "GET"
    /\ \E i \in 1..Len(last.frame) : last.frame[i] = 92
    /\ resp = Frame(sERR_BadName)
    /\ pc = "loop"

\* C4: a frame whose first word is none of LIST, GET, PUT, QUIT, the empty
\* frame included, is answered with the one frame ERR UnknownCmd; no file
\* changes and the session stays authenticated, reading the next frame.
C4_UnknownCmd ==
    [][(/\ Handles
        /\ NthRun(last'.frame, 1) \notin {sLIST, sGET, sPUT, sQUIT})
       => /\ resp' = Frame(sERR_UnknownCmd)
          /\ s2c' = Delivered(Frame(sERR_UnknownCmd))
          /\ fsops' = {}
          /\ shared' = shared /\ uploads' = uploads
          /\ xf' = Idle
          /\ pc' = "loop"
          /\ sess' = sess /\ sess[conn] = "authenticated"
          /\ link' = link]_vars

\* The empty frame was answered ERR UnknownCmd and a further command can
\* follow.
C4_Witness ==
    /\ last.op = "unknown"
    /\ last.frame = <<>>
    /\ resp = Frame(sERR_UnknownCmd)
    /\ pc = "loop" /\ link = "up" /\ ncmd < MaxCmds


\* The file the upload sent is the byte sequence local.data from the
\* measurement of its size to the last read: the header declared its length
\* and the bytes read are its bytes.
SentOneSequence ==
    /\ cxf.ret = "ok"
    /\ cxf.size = U64(Len(local.data))
    /\ cxf.read = local.data

\* Both ends of an upload have returned success.
PutDone ==
    /\ last.op = "PUT"
    /\ xf.ret = "ok"
    /\ NthRun(cf, 1) = sPUT
    /\ cxf.ret = "ok"

\* C5: bulk round trip.  When the client's send_file_encrypted has sent a
\* byte sequence and the server's recv_file_encrypted has returned success,
\* the file written holds exactly those bytes in their order, for the empty
\* sequence, less than a chunk, a whole number of chunks and one byte more,
\* and for every way the stream splits the bytes between recv calls.
C5_BulkRoundTrip ==
    (PutDone /\ SentOneSequence) => uploads[xf.name] = File(local.data)

\* A sequence of one chunk and one byte went through.
C5_Witness ==
    /\ PutDone /\ SentOneSequence
    /\ Len(local.data) = ChunkSize + 1
    /\ uploads[xf.name] = File(local.data)

\* C6, as stated: after an upload that both ends completed successfully the
\* file in uploads holds exactly the bytes the client read from its local
\* file.
C6_PutStoresWhatWasRead ==
    PutDone => uploads[xf.name] = File(cxf.read)

RECURSIVE JoinLines(_)
JoinLines(p) == IF p = <<>> THEN <<>> ELSE Head(p) \o <<10>> \o JoinLines(Tail(p))

\* The texts that hold one line for each of the names, in some order.
Listings(names) ==
    {JoinLines(p) : p \in {q \in [1..Cardinality(names) -> names] :
                              \A n \in names : \E i \in DOMAIN q : q[i] = n}}

\* C7: LIST is answered with the frame OK and one data frame.  When the
\* shared root opens, the data is one newline-terminated line for each entry
\* but ".", ".." and "uploads", and nothing else; when it does not open, the
\* OK frame is followed by the text "ERR: cannot open server_files\n".
C7_List ==
    last.op = "LIST" =>
        \E data \in (IF last.opened
                     THEN Listings({n \in SharedNames : shared[n].exists})
                     ELSE {sERR_CannotOpen}) :
            resp = Frame(sOK) \o Frame(data)

\* Both files of the shared root were listed, b first.
C7_Witness ==
    /\ last.op = "LIST"
    /\ last.opened
    /\ resp = Frame(sOK) \o Frame(nB \o <<10>> \o nA \o <<10>>)

\* C8, as stated: when a send_file_encrypted has returned success, the
\* payload bytes it wrote are as many as its header declared, also when
\* another writer changed the size of the file during the send.
C8_SentIsDeclared ==
    /\ (last.op = "GET" /\ xf.ret = "ok") => U64(xf.pos) = xf.size
    /\ (NthRun(cf, 1) = sPUT /\ cxf.ret = "ok") => U64(cxf.pos) = cxf.size

Rank(st) ==
    CASE st = "none" -> 0
      [] st = "authenticating" -> 1
      [] st = "authenticated" -> 2
      [] st = "closed" -> 3

\* C9: the session of a connection only moves forward, from authenticating
\* to authenticated to closed, and the server never returns to an earlier
\* connection; an AUTH frame in the command loop is answered ERR UnknownCmd
\* without the users file being opened and changes no session; while the
\* current connection is closed the server reads and writes nothing.
C9_Forward ==
    [][/\ \A c \in 1..MaxConns : Rank(sess'[c]) >= Rank(sess[c])
       /\ conn' >= conn
       /\ (Handles /\ NthRun(last'.frame, 1) = sAUTH) =>
             /\ resp' = Frame(sERR_UnknownCmd)
             /\ fsops' = {}
             /\ sess' = sess
             /\ authOK' = authOK
       /\ (conn > 0 /\ sess[conn] = "closed" /\ conn' = conn) =>
             UNCHANGED <<c2s, s2c, resp, fsops, shared, uploads, last, pc>>]_vars

\* An AUTH frame was refused in the command loop of an authenticated
\* session.
C9_Witness ==
    /\ last.op = "unknown"
    /\ NthRun(last.frame, 1) = sAUTH
    /\ resp = Frame(sERR_UnknownCmd)
    /\ sess[conn] = "authenticated"

\* C10: when the transfer of a GET or a PUT has failed, the connection is
\* over: the server is out of the command loop and back at accept, the
\* socket is closed, and what the peer had sent is never read.
C10_TransferFailureCloses ==
    xf.ret = "fail" =>
        /\ last.op \in {"GET", "PUT"}
        /\ pc = "accept"
        /\ sess[last.conn] = "closed"
        /\ link = "none"
        /\ c2s = <<>>

\* The payload read of a PUT failed after the destination was created.
C10_Witness ==
    /\ xf.ret = "fail"
    /\ last.op = "PUT"
    /\ <<"create", "uploads", xf.name>> \in fsops
    /\ uploads[xf.name].exists
    /\ pc = "accept"


\* C11, as stated: a failed send or recv on the server is fatal to the
\* connection.  Once a write of the server has failed (a response frame
\* included), a frame read has failed or a transfer has failed, the server
\* takes no further command frame of that connection.
C11_FailureIsFatal ==
    [][(sendFail \/ last.op = "recvfail" \/ xf.ret = "fail") => ~Handles]_vars

\* C12: connections are served strictly one at a time.  At most one
\* connection is inside handle_client, and it is the one accepted last;
\* every connection accepted before it has ended and is closed, so while a
\* peer stalls no later connection is accepted or authenticated; the server
\* is at accept only with the previous socket closed.
C12_OneAtATime ==
    /\ \A c, d \in 1..MaxConns : (c < d /\ sess[d] # "none") => sess[c] = "closed"
    /\ \A c \in 1..MaxConns :
          sess[c] \in {"authenticating", "authenticated"} => (c = conn /\ pc # "accept")
    /\ \A c \in 1..MaxConns : c > conn => (sess[c] = "none" /\ c \notin authOK)
    /\ pc = "accept" => link = "none"

\* A second connection is authenticated after the first, authenticated too,
\* has ended.
C12_Witness ==
    /\ conn = 2
    /\ sess[1] = "closed" /\ 1 \in authOK
    /\ sess[2] = "authenticated"

\* C13: QUIT in the command loop is answered with the one frame BYE, the
\* session is closed and the server is back at accept, whatever the peer
\* had sent after the QUIT is never read; when the read of a frame fails,
\* at the auth step or in the loop, the session is closed and nothing is
\* sent, not even attempted.
C13_QuitAndLoss ==
    /\ last.op = "QUIT" =>
          /\ resp = Frame(sBYE)
          /\ fsops = {}
          /\ sess[last.conn] = "closed"
          /\ pc = "accept"
          /\ c2s = <<>>
    /\ last.op = "recvfail" =>
          /\ resp = <<>>
          /\ ~sendFail
          /\ fsops = {}
          /\ sess[last.conn] = "closed"
          /\ pc = "accept"

\* QUIT was answered and closed the session with a LIST frame behind it
\* left unread.
C13_Witness ==
    /\ last.op = "QUIT"
    /\ resp = Frame(sBYE)
    /\ last.unread = Frame(sLIST)
    /\ pc = "accept"

\* Line i of the store is an entry of user u: the text before its first
\* colon is u.
EntryOf(users, i, u) ==
    \E k \in 1..Len(users.lines[i]) :
        /\ users.lines[i][k] = 58
        /\ \A j \in 1..(k - 1) : users.lines[i][j] # 58
        /\ SubSeq(users.lines[i], 1, k - 1) = u

\* C14, as stated: the lookup is keyed by the user name, first match wins.
\* When the store has entries of the user of the AUTH frame, the first of
\* them decides: AUTH_OK exactly when its password is the frame's.
C14_FirstMatchWins ==
    LET u == NthRun(last.frame, 2)
        p == NthRun(last.frame, 3)
        mine == {i \in 1..Len(last.users.lines) : EntryOf(last.users, i, u)}
    IN  (/\ last.op = "auth"
         /\ NthRun(last.frame, 1) = sAUTH /\ u # <<>> /\ p # <<>>
         /\ last.users.readable
         /\ mine # {})
        => LET first == CHOOSE i \in mine : \A j \in mine : i <= j
           IN  resp = Frame(IF SplitsTo(last.users.lines[first], u, p)
                            THEN sAUTH_OK ELSE sAUTH_FAIL)

\* C15, as stated: the eight bytes host_to_be64 puts on the wire are the
\* bytes of the length, most significant first, on a little-endian and on a
\* big-endian host alike, and be64_to_host on a host of the same byte order
\* gives the length back.
C15_HeaderIsBigEndian ==
    /\ pc \in {"sent", "read"} => s2c = xf.size
    /\ (pc = "read" /\ srvBE = cliBE) => cxf.size = xf.size

\* C16, as stated: for a string b of any length, what recv_line returns for
\* the bytes send_line(b) wrote is b, the header is the number of payload
\* bytes, and recv_line leaves none of the frame's bytes unread.
C16_FramingRoundTrip ==
    pc = "read" =>
        /\ last.frame = cf
        /\ Widen(ntohl(srvBE, Mem(srvBE, c2s.hdr))) = c2s.count
        /\ last.unread = U64(0)

\* min(ChunkSize, remaining) for the bulk receive in progress.
Request == Min(ChunkSize, U64Nat(xf.size))

\* C17: in the server's bulk receive the header takes 8 bytes of the stream;
\* every read takes at least one byte and, with what the chunk already
\* holds, at most min(ChunkSize, remaining); the bytes taken are the bytes
\* in chunks; written + remaining stays the declared length, remaining
\* goes down with every chunk written and not below zero; on success
\* remaining is zero, the file holds the declared number of bytes and the
\* control frame behind the payload is still whole and unread.
C17_ReceivesExactlyDeclared ==
    [][ /\ (pc = "put_hdr" /\ pc' \in {"put_chunk", "loop"}) =>
             /\ c2s' = Drop(c2s, 8)
             /\ xf'.size = SubSeq(c2s, 1, 8)
             /\ xf'.pos = 0 /\ xf'.buf = <<>>
             /\ uploads'[xf.name] = File(<<>>)
        /\ (pc = "put_chunk" /\ pc' # "accept" /\ xf' # xf) =>
             LET r == Len(c2s) - Len(c2s')
             IN  /\ r >= 1
                 /\ Len(xf.buf) + r <= Request
                 /\ c2s' = Drop(c2s, r)
                 /\ xf'.pos + Len(xf'.buf) = xf.pos + Len(xf.buf) + r
                 /\ U64Small(xf'.size)
                 /\ xf'.pos + U64Nat(xf'.size) = xf.pos + U64Nat(xf.size)
                 /\ xf'.pos > xf.pos => U64Nat(xf'.size) < U64Nat(xf.size)
                 /\ Len(uploads'[xf.name].data) = xf'.pos
        /\ (pc \in {"put_hdr", "put_chunk"} /\ pc' = "loop") =>
             /\ xf'.ret = "ok" /\ xf'.size = U64(0) /\ xf'.buf = <<>>
             /\ uploads'[nU] = File(Pattern(xf'.pos))
             /\ c2s' = RawFrame(sLIST) ]_vars

C17_Witness ==
    /\ pc = "loop" /\ last.op = "PUT" /\ xf.ret = "ok"
    /\ xf.pos = MaxLen /\ MaxLen > ChunkSize
    /\ uploads[nU] = File(Pattern(MaxLen))
    /\ c2s = RawFrame(sLIST)

\* C18: when the peer closes inside the payload the receive fails and the
\* destination, truncated when it was opened, is left holding the decoded
\* bytes of the chunks that arrived whole, a prefix of the payload, and
\* nothing of an incomplete chunk; when the peer closes inside the 8-byte
\* header the destination is not opened: it is as it was, created or not.
C18_NoRollback ==
    [][ /\ (pc = "put_chunk" /\ pc' = "accept") =>
             LET N == xf.pos + U64Nat(xf.size)
                 arrived == xf.pos + Len(xf.buf)
             IN  /\ xf'.ret = "fail"
                 /\ arrived < N
                 /\ xf.pos = ChunkSize * (arrived \div ChunkSize)
                 /\ uploads' = uploads
                 /\ uploads[xf.name] = File(Take(Pattern(N), xf.pos))
        /\ (pc = "put_hdr" /\ pc' = "accept" /\ Len(c2s) < 8) =>
             /\ xf'.ret = "fail"
             /\ fsops' = fsops
             /\ uploads' = uploads ]_vars

\* A second connection's upload failed inside its second chunk: the file of
\* the first connection's upload is replaced by the first chunk.
C18_Witness ==
    /\ pc = "accept" /\ conn = 2 /\ last.op = "PUT" /\ xf.ret = "fail"
    /\ xf.pos = ChunkSize /\ Len(xf.buf) = 1
    /\ uploads[nU] = File(Pattern(ChunkSize))

\* A second connection's upload failed inside the header: the file of the
\* first connection's upload is still there.
C18_WitnessHeader ==
    /\ pc = "accept" /\ conn = 2 /\ last.op = "PUT" /\ xf.ret = "fail"
    /\ fsops = {}
    /\ uploads[nU] = File(Pattern(MaxLen))

\* The server waits in a recv (recv_line or recv_all) for bytes that are
\* not there.
ServerInRecv ==
    \/ pc \in {"auth", "loop"} /\ ~LineReady(srvBE, c2s)
    \/ pc = "put_hdr" /\ Len(c2s) < 8
    \/ pc = "put_chunk" /\ c2s = <<>>

\* The client waits in a recv for bytes that are not there.
ClientInRecv ==
    \/ cpc \in {"authwait", "wait", "list2"} /\ ~LineReady(cliBE, s2c)
    \/ cpc = "get_hdr" /\ Len(s2c) < 8
    \/ cpc = "get_chunk" /\ Len(s2c) < ChunkOf(cxf.size)

\* Both sides wait in recv on an open connection with nothing in flight.
BothBlocked ==
    /\ link = "up" /\ c2s = <<>> /\ s2c = <<>>
    /\ ServerInRecv /\ ClientInRecv

\* C19, as stated: with the menu client, the server and no other writer of
\* the files, no state has both sides waiting in recv with nothing in
\* flight; when the server is to read a command, what is in flight to it is
\* nothing or exactly the frame the client sent last, and the client has
\* read all of the previous answer; and when both are between commands the
\* stream is empty in both directions.
C19_Lockstep ==
    /\ ~BothBlocked
    /\ (pc = "loop" /\ link = "up" /\ c2s # <<>>) =>
          /\ c2s = c_send_line(cliBE, cf)
          /\ s2c = <<>>
          /\ cpc = "wait"
    /\ (pc = "loop" /\ link = "up" /\ cpc = "menu") => (c2s = <<>> /\ s2c = <<>>)

\* C19, first part alone.
C19_NeverBothBlocked == ~BothBlocked

\* C20: a step changes a file of the uploads root only inside the receive
\* of a PUT whose name is well formed, and then that file alone; a file of
\* the shared root changes only by a writer outside the server; no command
\* but PUT makes a file system call that creates, and GET opens nothing but
\* the named file of the shared root; a GET of the name of an uploaded file
\* that the shared root does not hold is answered ERR NotFound, and LIST
\* lists the files of the shared root only.
C20_WritesOnlyUploads ==
    [][ /\ uploads' # uploads =>
             /\ pc \in {"put_hdr", "put_chunk"}
             /\ last.op = "PUT"
             /\ xf.name = NthRun(last.frame, 2)
             /\ ~IllFormed(xf.name)
             /\ \A n \in UploadNames \ {xf.name} : uploads'[n] = uploads[n]
        /\ shared' # shared => ext' = ext + 1
        /\ fsops' # fsops =>
             fsops' \subseteq
                 CASE last'.op = "PUT" -> {<<"create", "uploads", NthRun(last'.frame, 2)>>}
                   [] last'.op = "GET" -> {<<"open", "shared", NthRun(last'.frame, 2)>>}
                   [] last'.op = "LIST" -> {<<"opendir", "shared", <<>>>>}
                   [] last'.op = "auth" -> {<<"open", "users", <<>>>>}
                   [] OTHER -> {}
        /\ (Handles /\ last'.op = "GET") =>
             (NthRun(last'.frame, 2) \in UploadNames \ SharedNames =>
                 resp' = Frame(sERR_NotFound))
        /\ (Handles /\ last'.op = "LIST" /\ last'.opened) =>
             \E data \in Listings({n \in SharedNames : shared'[n].exists}) :
                 resp' = Frame(sOK) \o Frame(data) ]_vars

\* A connection uploaded u and the GET u of the next connection was
\* answered ERR NotFound.
C20_Witness ==
    /\ conn = 2 /\ uploads[nU] = File(Pattern(MaxLen))
    /\ last.op = "GET" /\ NthRun(last.frame, 2) = nU
    /\ resp = Frame(sERR_NotFound)

====
